---------------------------- MODULE Spec2Model ----------------------------
(***************************************************************************)
(* libdns/acmedns: the ACME-DNS provider (selectAccount, updateTxtValue,   *)
(* AppendRecords, SetRecords, DeleteRecords, GetRecords).                  *)
(*                                                                         *)
(* The repository holds two versions of the provider.  provider.go works   *)
(* on the flat libdns.Record fields (variant "flat"); the other file works *)
(* on libdns.RR (variant "rr") and adds SetRecords and GetRecords.  Both   *)
(* are modelled; the field `variant` of the provider says which one runs.  *)
(*                                                                         *)
(* Zone names, record names and table keys are sequences of one-character  *)
(* strings, so that the byte-level slicing and trimming of the code is     *)
(* modelled as it is written.  Credentials are opaque strings: the code    *)
(* only tests them for emptiness and appends "/update" to the URL.         *)
(***************************************************************************)
EXTENDS Integers, Sequences, FiniteSets, TLC

VARIABLES
    provider,   \* the Provider the methods are called on (never mutated)
    op,         \* the exported method that was called, "" before the call
    zone,       \* argument zone
    recs,       \* argument recs
    i,          \* index of the record the range loop is at
    appended,   \* appendedRecords
    sel,        \* acc, err := p.selectAccount(...) of the current record
    reqs,       \* the requests handed to client.Do, in order
    resps,      \* what client.Do returned for each of them, in order
    ret,        \* the (records, error) pair the method returned
    pc,         \* "idle", "inflight", "done", "panic"; "select"/"selected"
    ctxDone,    \* whether the caller's ctx has been cancelled
    prev        \* outcome of the caller's first call, once it calls again

vars == <<provider, op, zone, recs, i, appended, sel, reqs, resps, ret, pc,
          ctxDone, prev>>

-----------------------------------------------------------------------------
(* Bounds *)

MaxRecs == 3

-----------------------------------------------------------------------------
(* Strings *)

acmePrefix ==
    <<"_", "a", "c", "m", "e", "-", "c", "h", "a", "l", "l", "e", "n", "g", "e", ".">>

\* strings.HasPrefix / strings.HasSuffix / strings.TrimPrefix
HasPrefix(s, p) == Len(s) >= Len(p) /\ SubSeq(s, 1, Len(p)) = p

HasSuffix(s, p) == Len(s) >= Len(p) /\ SubSeq(s, Len(s) - Len(p) + 1, Len(s)) = p

TrimPrefix(s, p) == IF HasPrefix(s, p) THEN SubSeq(s, Len(p) + 1, Len(s)) ELSE s

\* strings.Trim(s, "."): every leading and every trailing "." is removed.
RECURSIVE TrimLeftDots(_)
TrimLeftDots(s) ==
    IF s # << >> /\ Head(s) = "." THEN TrimLeftDots(Tail(s)) ELSE s

RECURSIVE TrimRightDots(_)
TrimRightDots(s) ==
    IF s # << >> /\ s[Len(s)] = "."
    THEN TrimRightDots(SubSeq(s, 1, Len(s) - 1))
    ELSE s

Trim(s) == TrimRightDots(TrimLeftDots(s))

\* libdns.AbsoluteName(name, zone), as called by the rr variant.
AbsoluteName(name, z) ==
    IF z = << >> THEN Trim(name)
    ELSE IF name = << >> \/ name = <<"@">> THEN z
    ELSE IF HasSuffix(name, <<".">>) THEN name \o z
    ELSE name \o <<".">> \o z

-----------------------------------------------------------------------------
(* Errors, accounts, results *)

Err(m, d, c) == [msg |-> m, domain |-> d, code |-> c]

NoErr == Err("nil", << >>, 0)

account(u, pw, sd, url) ==
    [Username |-> u, Password |-> pw, Subdomain |-> sd, ServerURL |-> url]

NoAccount == account("", "", "", "")

SelNone == [kind |-> "none", acc |-> NoAccount, err |-> NoErr]

SelOk(a) == [kind |-> "ok", acc |-> a, err |-> NoErr]

SelErr(e) == [kind |-> "err", acc |-> NoAccount, err |-> e]

SelPanic == [kind |-> "panic", acc |-> NoAccount, err |-> NoErr]

\* The domain selectAccount looks up in p.Configs: [panic, domain].
\* flat: name + "." + zone, one trailing "." cut, then domain[:len(acmePrefix)]
\* is sliced, which panics when the domain is shorter than the prefix.
lookupDomainFlat(z, name) ==
    LET d0 == name \o <<".">> \o z
        d1 == IF SubSeq(d0, Len(d0), Len(d0)) = <<".">>
              THEN SubSeq(d0, 1, Len(d0) - 1)
              ELSE d0
    IN  IF Len(d1) < Len(acmePrefix)
        THEN [panic |-> TRUE, domain |-> d1]
        ELSE IF SubSeq(d1, 1, Len(acmePrefix)) = acmePrefix
        THEN [panic |-> FALSE, domain |-> SubSeq(d1, Len(acmePrefix) + 1, Len(d1))]
        ELSE [panic |-> FALSE, domain |-> d1]

\* Mutant of lookupDomainRR: only the trailing dots are trimmed.
lookupDomainRRTrimRight(z, name) ==
    [panic |-> FALSE,
     domain |-> TrimPrefix(TrimRightDots(AbsoluteName(name, z)), acmePrefix)]

\* rr: AbsoluteName, strings.Trim(domain, "."), strings.TrimPrefix.
lookupDomainRR(z, name) ==
    [panic |-> FALSE,
     domain |-> TrimPrefix(Trim(AbsoluteName(name, z)), acmePrefix)]

lookupDomain(variant, z, name) ==
    IF variant = "rr" THEN lookupDomainRR(z, name)
    ELSE lookupDomainFlat(z, name)

\* The table branch of selectAccount (p.Configs != nil).
selectFromConfigs(p, z, name) ==
    LET d == lookupDomain(p.variant, z, name)
    IN  IF d.panic THEN SelPanic
        ELSE IF d.domain \notin DOMAIN p.Configs.m
        THEN SelErr(Err("Config for domain %s not found", d.domain, 0))
        ELSE LET config == p.Configs.m[d.domain]
             IN  SelOk(account(config.Username, config.Password,
                               config.Subdomain, config.ServerURL))

\* Mutant of selectStatic: Subdomain is validated before Password.
selectStaticSwapped(p) ==
    IF p.Username = "" THEN SelErr(Err("Username cannot be empty", << >>, 0))
    ELSE IF p.Subdomain = "" THEN SelErr(Err("Subdomain cannot be empty", << >>, 0))
    ELSE IF p.Password = "" THEN SelErr(Err("Password cannot be empty", << >>, 0))
    ELSE IF p.ServerURL = "" THEN SelErr(Err("ServerURL cannot be empty", << >>, 0))
    ELSE SelOk(account(p.Username, p.Password, p.Subdomain, p.ServerURL))

\* The static branch of selectAccount (p.Configs == nil).
selectStatic(p) ==
    IF p.Username = "" THEN SelErr(Err("Username cannot be empty", << >>, 0))
    ELSE IF p.Password = "" THEN SelErr(Err("Password cannot be empty", << >>, 0))
    ELSE IF p.Subdomain = "" THEN SelErr(Err("Subdomain cannot be empty", << >>, 0))
    ELSE IF p.ServerURL = "" THEN SelErr(Err("ServerURL cannot be empty", << >>, 0))
    ELSE SelOk(account(p.Username, p.Password, p.Subdomain, p.ServerURL))

\* Mutant of selectAccount: a miss in the table falls back to the static
\* credentials.
selectAccountFallback(p, z, name) ==
    IF ~p.Configs.isNil /\ selectFromConfigs(p, z, name).kind # "err"
    THEN selectFromConfigs(p, z, name)
    ELSE selectStatic(p)

selectAccount(p, z, name) ==
    IF ~p.Configs.isNil THEN selectFromConfigs(p, z, name) ELSE selectStatic(p)

-----------------------------------------------------------------------------
(* updateTxtValue: the request it builds *)

\* http.NewRequest fails (and returns a nil request) when the URL does not
\* parse; ":bad/update" has no scheme before its colon.
BadServerURL == ":bad"

newRequestFails(url) == url = BadServerURL \o "/update"

\* Content-Type is set by the rr variant only.
contentType(variant) == IF variant = "rr" THEN "application/json" ELSE ""

\* The request handed to client.Do for record idx.
request(variant, a, value, idx) ==
    [idx |-> idx,
     method |-> "POST",
     url |-> a.ServerURL \o "/update",
     user |-> a.Username,
     key |-> a.Password,
     ctype |-> contentType(variant),
     subdomain |-> a.Subdomain,
     txt |-> value]

NoRequest == request("", NoAccount, "", 0)

\* What client.Do returned: a response with a status code, or an error.
Status(c) == [kind |-> "status", code |-> c]

TransportErr == [kind |-> "error", code |-> 0]

-----------------------------------------------------------------------------
(* AppendRecords *)

Record(t, n, v, ttl) == [Type |-> t, Name |-> n, Data |-> v, TTL |-> ttl]

\* The record appended to appendedRecords: Type, Name and Data only.
normalized(r) == Record("TXT", r.Name, r.Data, 0)

Ret(rs, e) == [records |-> rs, err |-> e]

NoRet == Ret(<< >>, NoErr)

Outcome(c, r, s, send, q) ==
    [pc |-> c, ret |-> r, sel |-> s, send |-> send, req |-> q]

\* One pass of the range loop from record idx, up to the point where it
\* returns, panics or blocks in client.Do.
Iterate(p, z, rs, idx, app) ==
    IF idx > Len(rs) THEN Outcome("done", Ret(app, NoErr), SelNone, FALSE, NoRequest)
    ELSE IF rs[idx].Type # "TXT"
    THEN Outcome("done",
                 Ret(app, Err("joohoi_acme_dns provider only supports adding TXT records",
                              << >>, 0)),
                 SelNone, FALSE, NoRequest)
    ELSE LET s == selectAccount(p, z, rs[idx].Name)
         IN  IF s.kind = "panic" THEN Outcome("panic", NoRet, s, FALSE, NoRequest)
             ELSE IF s.kind = "err"
             THEN Outcome("done", Ret(app, s.err), s, FALSE, NoRequest)
             ELSE LET q == request(p.variant, s.acc, rs[idx].Data, idx)
                  IN  IF newRequestFails(q.url)
                      THEN Outcome("panic", NoRet, s, FALSE, NoRequest)
                      ELSE Outcome("inflight", NoRet, s, TRUE, q)

\* The state after Iterate, with `log` the requests sent so far.
Advance(z, rs, idx, app, log) ==
    LET o == Iterate(provider, z, rs, idx, app)
    IN  /\ i' = idx
        /\ appended' = app
        /\ sel' = o.sel
        /\ reqs' = IF o.send THEN Append(log, o.req) ELSE log
        /\ ret' = o.ret
        /\ pc' = o.pc

\* Mutant of updateResult: every status below 300 counts as success.
updateResultAny2xx(r) ==
    IF r.kind = "error" THEN Err("Error while reading response: %w", << >>, 0)
    ELSE IF r.code >= 300
    THEN Err("Updating ACME-DNS record resulted in response code %d", << >>, r.code)
    ELSE NoErr

\* The error updateTxtValue returns for what client.Do returned.
updateResult(r) ==
    IF r.kind = "error" THEN Err("Error while reading response: %w", << >>, 0)
    ELSE IF r.code # 200
    THEN Err("Updating ACME-DNS record resulted in response code %d", << >>, r.code)
    ELSE NoErr

\* AppendRecords(ctx, zone, recs) up to its first client.Do.
AppendRecords(z, rs) ==
    /\ zone' = z
    /\ recs' = rs
    /\ resps' = << >>
    /\ Advance(z, rs, 1, << >>, << >>)

\* Mutant of SetRecords: a stub that returns nil, nil.
SetRecordsStub(z, rs) ==
    /\ zone' = z
    /\ recs' = rs
    /\ ret' = Ret(<< >>, NoErr)
    /\ pc' = "done"
    /\ i' = 0
    /\ appended' = << >>
    /\ sel' = SelNone
    /\ reqs' = << >>
    /\ resps' = << >>

\* SetRecords(ctx, zone, recs): return p.AppendRecords(ctx, zone, recs).
SetRecords(z, rs) == AppendRecords(z, rs)

\* Mutant of DeleteRecords: it applies the records as AppendRecords does.
DeleteRecordsApplies(z, rs) == AppendRecords(z, rs)

\* DeleteRecords(ctx, zone, recs): return nil, nil.
DeleteRecords(z, rs) ==
    /\ zone' = z
    /\ recs' = rs
    /\ ret' = Ret(<< >>, NoErr)
    /\ pc' = "done"
    /\ UNCHANGED <<i, appended, sel, reqs, resps>>

\* GetRecords(ctx, zone): return nil, error.
GetRecords(z) ==
    /\ zone' = z
    /\ ret' = Ret(<< >>, Err("acmedns provider does not support getting records",
                             << >>, 0))
    /\ pc' = "done"
    /\ UNCHANGED <<recs, i, appended, sel, reqs, resps>>

-----------------------------------------------------------------------------
(* Inputs *)

ZoneA == <<"a", ".", "i", "o">>

ZoneC == <<"c", ".", "i", "o">>

NameAcme == SubSeq(acmePrefix, 1, Len(acmePrefix) - 1)

NameAcmeB == acmePrefix \o <<"b">>

NameX == <<"x">>

KeyBA == <<"b", ".">> \o ZoneA

Zones == {ZoneA, ZoneC}

Names == {NameAcme, NameAcmeB, NameX}

Values == {"v1", "v2"}

\* The records a caller passes carry a TTL, which the provider ignores.
Records ==
    {Record("TXT", NameAcme, v, 300) : v \in Values}
    \cup {Record("TXT", NameAcmeB, "v2", 300), Record("TXT", NameX, "v1", 300),
          Record("A", NameAcme, "v1", 300)}

Batches == UNION {[1..n -> Records] : n \in 0..MaxRecs}

DomainConfig(u, pw, sd, fd, url) ==
    [Username |-> u, Password |-> pw, Subdomain |-> sd, FullDomain |-> fd,
     ServerURL |-> url]

NilConfigs == [isNil |-> TRUE, m |-> << >>]

Configs(m) == [isNil |-> FALSE, m |-> m]

Provider(variant, c, u, pw, sd, url) ==
    [variant |-> variant, Configs |-> c, Username |-> u, Password |-> pw,
     Subdomain |-> sd, ServerURL |-> url]

ConfigA == DomainConfig("uA", "pA", "sdA", "fdA", "https://a")

ConfigB == DomainConfig("uB", "pB", "sdB", "fdB", "https://b")

ConfigBad == DomainConfig("uB", "pB", "sdB", "fdB", BadServerURL)

TableAB == [k \in {ZoneA, KeyBA} |-> IF k = ZoneA THEN ConfigA ELSE ConfigB]

TableABad == [k \in {ZoneA, KeyBA} |-> IF k = ZoneA THEN ConfigA ELSE ConfigBad]

Variants == {"rr", "flat"}

Providers ==
    {Provider(v, Configs(TableAB), "u", "p", "sd", "https://s") : v \in Variants}
    \cup {Provider(v, Configs(TableABad), "", "", "", "") : v \in Variants}
    \cup {Provider(v, NilConfigs, "u", "p", "sd", "https://s") : v \in Variants}
    \cup {Provider(v, NilConfigs, "u", "", "sd", "https://s") : v \in Variants}

StatusCodes == {200, 204, 500}

Responses == {Status(c) : c \in StatusCodes} \cup {TransportErr}

NoPrev ==
    [set |-> FALSE, op |-> "", pc |-> "", ret |-> NoRet, reqs |-> << >>,
     resps |-> << >>]

-----------------------------------------------------------------------------
(* The provider called by a client *)

Init ==
    /\ provider \in Providers
    /\ op = ""
    /\ zone = << >>
    /\ recs = << >>
    /\ i = 0
    /\ appended = << >>
    /\ sel = SelNone
    /\ reqs = << >>
    /\ resps = << >>
    /\ ret = NoRet
    /\ pc = "idle"
    /\ ctxDone = FALSE
    /\ prev = NoPrev

CallAppend ==
    /\ pc = "idle"
    /\ op' = "AppendRecords"
    /\ \E z \in Zones, rs \in Batches : AppendRecords(z, rs)
    /\ UNCHANGED <<provider, ctxDone, prev>>

\* SetRecords and GetRecords exist in the rr variant only.
CallSet ==
    /\ pc = "idle"
    /\ provider.variant = "rr"
    /\ op' = "SetRecords"
    /\ \E z \in Zones, rs \in Batches : SetRecords(z, rs)
    /\ UNCHANGED <<provider, ctxDone, prev>>

CallDelete ==
    /\ pc = "idle"
    /\ op' = "DeleteRecords"
    /\ \E z \in Zones, rs \in Batches : DeleteRecords(z, rs)
    /\ UNCHANGED <<provider, ctxDone, prev>>

CallGet ==
    /\ pc = "idle"
    /\ provider.variant = "rr"
    /\ op' = "GetRecords"
    /\ \E z \in Zones : GetRecords(z)
    /\ UNCHANGED <<provider, ctxDone, prev>>

\* Mutant of Respond: a failed request is sent again.
RespondRetry(r) ==
    /\ pc = "inflight"
    /\ resps' = Append(resps, r)
    /\ LET e == updateResult(r)
       IN  IF e # NoErr
           THEN /\ Len(reqs) < 2 * MaxRecs
                /\ reqs' = Append(reqs, reqs[Len(reqs)])
                /\ UNCHANGED <<i, appended, sel, ret, pc>>
           ELSE Advance(zone, recs, i + 1, Append(appended, normalized(recs[i])), reqs)
    /\ UNCHANGED <<provider, op, zone, recs, ctxDone, prev>>

\* client.Do returns r; updateTxtValue returns, and the loop goes on or
\* AppendRecords returns.
Respond(r) ==
    /\ pc = "inflight"
    /\ resps' = Append(resps, r)
    /\ LET e == updateResult(r)
       IN  IF e # NoErr
           THEN /\ ret' = Ret(appended, e)
                /\ pc' = "done"
                /\ UNCHANGED <<i, appended, sel, reqs>>
           ELSE Advance(zone, recs, i + 1, Append(appended, normalized(recs[i])), reqs)
    /\ UNCHANGED <<provider, op, zone, recs, ctxDone, prev>>

\* The caller cancels ctx while the call is blocked in client.Do.  The
\* request was built by http.NewRequest, without ctx: nothing reads ctx.
Cancel ==
    /\ pc = "inflight"
    /\ ~ctxDone
    /\ ctxDone' = TRUE
    /\ UNCHANGED <<provider, op, zone, recs, i, appended, sel, reqs, resps, ret,
                   pc, prev>>

\* The caller, after AppendRecords (SetRecords) ended, calls SetRecords
\* (AppendRecords) on the same provider with the same zone and records.
CallAgain ==
    /\ pc \in {"done", "panic"}
    /\ op \in {"AppendRecords", "SetRecords"}
    /\ provider.variant = "rr"
    /\ ~prev.set
    /\ prev' = [set |-> TRUE, op |-> op, pc |-> pc, ret |-> ret, reqs |-> reqs,
                resps |-> resps]
    /\ ctxDone' = FALSE
    /\ IF op = "AppendRecords"
       THEN op' = "SetRecords" /\ SetRecords(zone, recs)
       ELSE op' = "AppendRecords" /\ AppendRecords(zone, recs)
    /\ UNCHANGED provider

Next ==
    \/ CallAppend
    \/ CallSet
    \/ CallDelete
    \/ CallGet
    \/ \E r \in Responses : Respond(r)
    \/ Cancel
    \/ CallAgain

Spec == Init /\ [][Next]_vars

-----------------------------------------------------------------------------
(* selectAccount on its own, over a wider set of configurations and names *)

ZoneADot == ZoneA \o <<".">>

ZoneADotDot == ZoneA \o <<".", ".">>

KeyXA == NameX \o <<".">> \o ZoneA

KeyAcmeA == acmePrefix \o ZoneA

\* Zones are not empty and names do not end with a dot: what AbsoluteName
\* does with those is the library's own matter.
SelZones == {ZoneA, ZoneADot, ZoneADotDot, ZoneC}

SelNames ==
    {NameAcme, NameAcmeB, NameX, <<"@">>, << >>, acmePrefix \o NameAcme,
     <<".">> \o NameAcme}

ConfigX == DomainConfig("uX", "pX", "sdX", "fdX", "https://x")

ConfigAcme == DomainConfig("uM", "pM", "sdM", "fdM", "https://m")

TableSel ==
    [k \in {ZoneA, KeyBA, KeyXA, KeyAcmeA} |->
        IF k = ZoneA THEN ConfigA
        ELSE IF k = KeyBA THEN ConfigB
        ELSE IF k = KeyXA THEN ConfigX
        ELSE ConfigAcme]

SelProviders ==
    {Provider(v, NilConfigs, u, pw, sd, url) :
        v \in Variants, u \in {"", "u"}, pw \in {"", "p"}, sd \in {"", "sd"},
        url \in {"", "https://s"}}
    \cup {Provider(v, Configs(m), u, u, u, u) :
            v \in Variants, m \in {TableSel, << >>}, u \in {"", "u"}}

InitSel ==
    /\ provider \in SelProviders
    /\ op = "selectAccount"
    /\ zone \in SelZones
    /\ recs \in {<<Record("TXT", n, "v1", 300)>> : n \in SelNames}
    /\ i = 1
    /\ appended = << >>
    /\ sel = SelNone
    /\ reqs = << >>
    /\ resps = << >>
    /\ ret = NoRet
    /\ pc = "select"
    /\ ctxDone = FALSE
    /\ prev = NoPrev

\* acc, err := p.selectAccount(zone, rr.Name)
Select ==
    /\ pc = "select"
    /\ sel' = selectAccount(provider, zone, recs[i].Name)
    /\ pc' = "selected"
    /\ UNCHANGED <<provider, op, zone, recs, i, appended, reqs, resps, ret,
                   ctxDone, prev>>

NextSel == Select

SpecSel == InitSel /\ [][NextSel]_vars

-----------------------------------------------------------------------------
(* Properties *)

Appending == op \in {"AppendRecords", "SetRecords"}

UnsupportedType ==
    Err("joohoi_acme_dns provider only supports adding TXT records", << >>, 0)

\* Record j of the batch was applied: TXT, credentials selected, answered 200.
Applied(j) ==
    /\ recs[j].Type = "TXT"
    /\ selectAccount(provider, zone, recs[j].Name).kind = "ok"
    /\ j <= Len(resps)
    /\ resps[j] = Status(200)

\* The error record j raises, when it is the first one not applied.
FailureOf(j) ==
    IF recs[j].Type # "TXT" THEN UnsupportedType
    ELSE IF selectAccount(provider, zone, recs[j].Name).kind = "err"
    THEN selectAccount(provider, zone, recs[j].Name).err
    ELSE IF j > Len(resps) THEN NoErr
    ELSE IF resps[j].kind = "error"
    THEN Err("Error while reading response: %w", << >>, 0)
    ELSE IF resps[j].code = 200 THEN NoErr
    ELSE Err("Updating ACME-DNS record resulted in response code %d", << >>,
             resps[j].code)

\* C1: whenever AppendRecords returns, the returned list holds the
\* normalized form {TXT, name, value} of exactly the records before the
\* first failing one, in input order; the error is nil iff no record failed
\* and is otherwise the error of the first failing record; no request
\* follows the failing one (nothing is rolled back).
C1_PartialResult ==
    (pc = "done" /\ Appending) =>
        LET n == Len(ret.records)
        IN  /\ n <= Len(recs)
            /\ \A j \in 1..n :
                  /\ ret.records[j] =
                        [Type |-> "TXT", Name |-> recs[j].Name,
                         Data |-> recs[j].Data, TTL |-> 0]
                  /\ Applied(j)
            /\ (ret.err = NoErr) <=> (n = Len(recs))
            /\ n < Len(recs) =>
                  /\ ~Applied(n + 1)
                  /\ ret.err = FailureOf(n + 1)
                  /\ ret.err # NoErr
            /\ Len(reqs) = Len(resps)
            /\ Len(reqs) \in {n, n + 1}

\* A batch of three whose second record is answered 500: the first record
\* is returned with the status error, and the third was never sent.
C1_Witness ==
    /\ pc = "done"
    /\ op = "AppendRecords"
    /\ Len(recs) = 3
    /\ recs[3].Type = "TXT"
    /\ Len(ret.records) = 1
    /\ ret.err.code = 500
    /\ Len(reqs) = 2

\* C2: the requests of one call are sent one at a time, in input order, at
\* most one per record and never again; a request is sent for a record only
\* if every earlier record was applied and the record is TXT with selectable
\* credentials; nothing is sent after the first failure.
C2_RequestOrder ==
    Appending =>
        /\ Len(resps) <= Len(reqs)
        /\ Len(reqs) <= Len(resps) + 1
        /\ (pc = "inflight") <=> (Len(reqs) = Len(resps) + 1)
        /\ Len(reqs) <= Len(recs)
        /\ \A k \in 1..Len(reqs) :
              /\ reqs[k].idx = k
              /\ reqs[k].method = "POST"
              /\ recs[k].Type = "TXT"
              /\ selectAccount(provider, zone, recs[k].Name).kind = "ok"
              /\ \A j \in 1..(k - 1) : Applied(j)
        /\ \A k \in 1..Len(resps) :
              resps[k] # Status(200) => (k = Len(reqs) /\ pc = "done")

\* The first record was applied, the second is not TXT: one request only.
C2_Witness ==
    /\ pc = "done"
    /\ Appending
    /\ Len(recs) = 3
    /\ recs[2].Type # "TXT"
    /\ recs[3].Type = "TXT"
    /\ Len(reqs) = 1
    /\ ret.err = UnsupportedType

\* C3: every request for a record is a POST to <serverURL>/update whose
\* user, key, subdomain and server URL are those of the account selected for
\* the record's zone and name, whose txt is the record's value, and whose
\* Content-Type is application/json.
C3_RequestContents ==
    Appending =>
        \A k \in 1..Len(reqs) :
            LET r == recs[reqs[k].idx]
                a == selectAccount(provider, zone, r.Name).acc
            IN  /\ reqs[k].method = "POST"
                /\ reqs[k].url = a.ServerURL \o "/update"
                /\ reqs[k].user = a.Username
                /\ reqs[k].key = a.Password
                /\ reqs[k].subdomain = a.Subdomain
                /\ reqs[k].txt = r.Data
                /\ reqs[k].ctype = "application/json"

\* C6: a step taken while a request is in flight and ctx is cancelled ends
\* the call with an error and the records applied so far, and sends nothing.
C6_CancelAborts ==
    [][(pc = "inflight" /\ ctxDone) =>
          /\ pc' = "done"
          /\ ret'.err # NoErr
          /\ ret'.records = appended
          /\ reqs' = reqs]_vars

\* C8: SetRecords and AppendRecords, called with the same zone and records
\* on the same provider and given the same server responses, end the same
\* way, return the same records and error and send the same requests.
C8_SetIsAppend ==
    (prev.set /\ pc \in {"done", "panic"} /\ resps = prev.resps) =>
        /\ op # prev.op
        /\ pc = prev.pc
        /\ ret = prev.ret
        /\ reqs = prev.reqs

C8_Witness ==
    /\ prev.set
    /\ prev.op = "AppendRecords"
    /\ op = "SetRecords"
    /\ pc = "done"
    /\ resps = prev.resps
    /\ Len(resps) = 2
    /\ Len(ret.records) = 1
    /\ ret.err # NoErr

\* C9: DeleteRecords and GetRecords send no request and select no account,
\* whatever the zone, records and configuration; DeleteRecords returns no
\* records and no error, GetRecords no records and a "not supported" error.
C9_DeleteGetInert ==
    (op \in {"DeleteRecords", "GetRecords"}) =>
        /\ pc = "done"
        /\ reqs = << >>
        /\ resps = << >>
        /\ sel = SelNone
        /\ ret.records = << >>
        /\ op = "DeleteRecords" => ret.err = NoErr
        /\ op = "GetRecords" =>
              ret.err.msg = "acmedns provider does not support getting records"

\* DeleteRecords of TXT records on a provider with no password and no table.
C9_Witness ==
    /\ op = "DeleteRecords"
    /\ provider.Configs.isNil
    /\ provider.Password = ""
    /\ Len(recs) = 2
    /\ recs[1].Type = "TXT"
    /\ pc = "done"

\* C10: AppendRecords never ends abnormally.
C10_NoPanic == pc # "panic"

-----------------------------------------------------------------------------
(* Properties of selectAccount *)

Selected == pc = "selected"

FieldNames == <<"Username", "Password", "Subdomain", "ServerURL">>

StaticFields(p) == <<p.Username, p.Password, p.Subdomain, p.ServerURL>>

EmptyFields(p) == {k \in 1..4 : StaticFields(p)[k] = ""}

FirstEmpty(p) == CHOOSE k \in EmptyFields(p) : \A l \in EmptyFields(p) : k <= l

AccountOf(c) == account(c.Username, c.Password, c.Subdomain, c.ServerURL)

\* C4: with a table present, a selectAccount that returns either returns
\* the credentials of a table entry or fails with "config not found" for a
\* domain that is no key of the table; the static fields are never used.
C4_TableOnly ==
    (Selected /\ ~provider.Configs.isNil /\ sel.kind # "panic") =>
        \/ /\ sel.kind = "ok"
           /\ \E k \in DOMAIN provider.Configs.m :
                 sel.acc = AccountOf(provider.Configs.m[k])
        \/ /\ sel.kind = "err"
           /\ sel.err.msg = "Config for domain %s not found"
           /\ sel.err.domain \notin DOMAIN provider.Configs.m
           /\ sel.acc = NoAccount

\* A miss with all four static fields set: an error, not the static account.
C4_Witness ==
    /\ Selected
    /\ ~provider.Configs.isNil
    /\ provider.Configs.m # << >>
    /\ EmptyFields(provider) = {}
    /\ sel.kind = "err"

\* The key of the claim: name + "." + zone, one trailing dot cut, then one
\* leading "_acme-challenge." cut.
CutOneTrailingDot(s) ==
    IF Len(s) > 0 /\ s[Len(s)] = "." THEN SubSeq(s, 1, Len(s) - 1) ELSE s

CutOnePrefix(s) ==
    IF Len(s) >= Len(acmePrefix) /\ \A k \in 1..Len(acmePrefix) : s[k] = acmePrefix[k]
    THEN [k \in 1..(Len(s) - Len(acmePrefix)) |-> s[k + Len(acmePrefix)]]
    ELSE s

ClaimKey(z, n) == CutOnePrefix(CutOneTrailingDot(n \o <<".">> \o z))

\* The key of the rr variant, for a zone that is not empty and a name that
\* does not end with a dot: an empty or "@" name stands for the zone, and
\* every leading and trailing dot is cut before the prefix.
CutOuterDots(s) ==
    LET keep == {k \in 1..Len(s) : s[k] # "."}
    IN  IF keep = {} THEN << >>
        ELSE LET lo == CHOOSE k \in keep : \A l \in keep : k <= l
                 hi == CHOOSE k \in keep : \A l \in keep : k >= l
             IN  [k \in 1..(hi - lo + 1) |-> s[k + lo - 1]]

Joined(z, n) ==
    IF n \in {<< >>, <<"@">>} THEN z ELSE n \o <<".">> \o z

AmendedKey(variant, z, n) ==
    IF variant = "rr" THEN CutOnePrefix(CutOuterDots(Joined(z, n)))
    ELSE ClaimKey(z, n)

\* selectAccount looked key k up in the table: the entry's account on a
\* hit, "config not found" naming k on a miss.
LookedUp(k) ==
    IF k \in DOMAIN provider.Configs.m
    THEN sel = SelOk(AccountOf(provider.Configs.m[k]))
    ELSE sel = SelErr(Err("Config for domain %s not found", k, 0))

C7_ValidationOrder ==
    (Selected /\ provider.Configs.isNil) =>
        IF EmptyFields(provider) = {}
        THEN sel = SelOk(account(provider.Username, provider.Password,
                                 provider.Subdomain, provider.ServerURL))
        ELSE /\ sel.kind = "err"
             /\ sel.err.msg = FieldNames[FirstEmpty(provider)] \o " cannot be empty"
             /\ sel.acc = NoAccount

\* Password and ServerURL empty: the error names Password.
C7_Witness ==
    /\ Selected
    /\ provider.Configs.isNil
    /\ EmptyFields(provider) = {2, 4}
    /\ sel.err.msg = "Password cannot be empty"

=============================================================================
